---------------------------- MODULE Spec2Model ----------------------------
(***************************************************************************)
(* Banded LDL^T solver: the classes SLAUSolverLDLT (src/src/SLAUSolverLDLT *)
(* .cpp), LDLT (src/src/LDLT.cpp) and the OpenMP variant of LDLT           *)
(* (src/unnamed/part_004), driven by their main programs.                  *)
(*                                                                         *)
(* floatingPointType is modelled in exact arithmetic: a value is a pair    *)
(* <<p, q>>.  q > 0 with gcd(|p|, q) = 1 is the rational p/q; <<0, 1>> and *)
(* <<0, -1>> are +0 and -0; <<1, 0>> and <<-1, 0>> are +inf and -inf;      *)
(* <<0, 0>> is NaN.  Division by zero, inf and NaN follow IEEE 754;        *)
(* rounding is not modelled.                                               *)
(***************************************************************************)
EXTENDS Integers, Sequences, FiniteSets, TLC

\* ------------------------------------------------------------------------
\* floatingPointType
\* ------------------------------------------------------------------------

Abs(a) == IF a < 0 THEN -a ELSE a

RECURSIVE GCD(_, _)
GCD(a, b) == IF b = 0 THEN a ELSE GCD(b, a % b)

NaN == <<0, 0>>

Inf(s) == <<s, 0>>

Zero(s) == <<0, s>>

Num(k) == IF k = 0 THEN Zero(1) ELSE <<k, 1>>

Frac(p, q) ==
    IF p = 0 THEN Zero(1)
    ELSE LET s == IF q < 0 THEN -1 ELSE 1
             g == GCD(Abs(p), Abs(q))
         IN  <<(s * p) \div g, (s * q) \div g>>

IsNaN(x) == x = NaN

IsInf(x) == x[2] = 0 /\ x[1] # 0

IsZero(x) == x[1] = 0 /\ x[2] # 0

IsFinite(x) == x[2] # 0

Sgn(x) ==
    IF x[1] > 0 THEN 1
    ELSE IF x[1] < 0 THEN -1
    ELSE IF x[2] < 0 THEN -1 ELSE 1

Neg(x) == IF IsZero(x) THEN Zero(-x[2]) ELSE <<-x[1], x[2]>>

Mul(a, b) ==
    IF IsNaN(a) \/ IsNaN(b) THEN NaN
    ELSE IF IsInf(a) \/ IsInf(b)
         THEN IF IsZero(a) \/ IsZero(b) THEN NaN ELSE Inf(Sgn(a) * Sgn(b))
    ELSE IF IsZero(a) \/ IsZero(b) THEN Zero(Sgn(a) * Sgn(b))
    ELSE Frac(a[1] * b[1], a[2] * b[2])

Add(a, b) ==
    IF IsNaN(a) \/ IsNaN(b) THEN NaN
    ELSE IF IsInf(a) /\ IsInf(b) THEN (IF a = b THEN a ELSE NaN)
    ELSE IF IsInf(a) THEN a
    ELSE IF IsInf(b) THEN b
    ELSE IF IsZero(a) /\ IsZero(b)
         THEN (IF Sgn(a) = -1 /\ Sgn(b) = -1 THEN Zero(-1) ELSE Zero(1))
    ELSE IF IsZero(a) THEN b
    ELSE IF IsZero(b) THEN a
    ELSE Frac(a[1] * b[2] + b[1] * a[2], a[2] * b[2])

Sub(a, b) == Add(a, Neg(b))

Div(a, b) ==
    IF IsNaN(a) \/ IsNaN(b) THEN NaN
    ELSE IF IsInf(b) THEN (IF IsInf(a) THEN NaN ELSE Zero(Sgn(a) * Sgn(b)))
    ELSE IF IsZero(b) THEN (IF IsZero(a) THEN NaN ELSE Inf(Sgn(a) * Sgn(b)))
    ELSE IF IsInf(a) THEN Inf(Sgn(a) * Sgn(b))
    ELSE IF IsZero(a) THEN Zero(Sgn(a) * Sgn(b))
    ELSE Frac(a[1] * b[2], a[2] * b[1])

\* operator== of floatingPointType: NaN equals nothing, -0 equals +0.
Eq(a, b) ==
    /\ ~IsNaN(a)
    /\ ~IsNaN(b)
    /\ (a = b \/ (IsZero(a) /\ IsZero(b)))

\* ------------------------------------------------------------------------
\* Band storage: vector<vector<floatingPointType>> matrixAL, n rows of m
\* slots (rows and slots numbered from 0), and the vectors of length n.
\* ------------------------------------------------------------------------

Max(a, b) == IF a > b THEN a ELSE b

\* vector<T>(len, 0.0)
ZeroVector(len) == [i \in 0 .. len - 1 |-> Zero(1)]

ZeroMatrix(rows, cols) == [i \in 0 .. rows - 1 |-> ZeroVector(cols)]

\* matrixAL[r][c] as an rvalue.  operator[] does no range check: a slot
\* outside the row's storage reads whatever lies there.  oob maps the
\* out-of-range cells to the value read from them; a cell it does not list
\* reads 0.
Rd(AL, oob, r, c) ==
    IF r \in DOMAIN AL /\ c \in DOMAIN AL[r] THEN AL[r][c]
    ELSE IF <<r, c>> \in DOMAIN oob THEN oob[<<r, c>>]
    ELSE Zero(1)

\* The cells among acc that lie outside the storage of an n x m matrixAL.
OutOfRange(acc, n, m) ==
    {c \in acc : ~(c[1] \in 0 .. n - 1 /\ c[2] \in 0 .. m - 1)}

\* ------------------------------------------------------------------------
\* SLAUSolverLDLT::performLDLtDecomposition
\* A decomposition state s is [AL, D, acc, divz, idx]: the band, the
\* diagonal, the set of cells <<row, slot>> of matrixAL indexed so far,
\* whether a division by a zero diagD[i] has been executed, and the set of
\* <<i, j, k, indexIK, indexJK>> the innermost loop has used.
\* ------------------------------------------------------------------------

\* The innermost loop over k: returns sumL, the cells it indexed and the
\* indices it used.
RECURSIVE SLAU_sumL(_, _, _, _, _, _, _, _, _, _)
SLAU_sumL(s, oob, i, j, k, indexIK, indexJK, sumL, acc, idx) ==
    IF k < i
    THEN LET ik == indexIK + k
             jk == indexJK + k
         IN  SLAU_sumL(s, oob, i, j, k + 1, ik, jk,
                 Add(sumL, Mul(Mul(Rd(s.AL, oob, j, jk), Rd(s.AL, oob, i, ik)),
                               s.D[k])),
                 acc \cup {<<j, jk>>, <<i, ik>>},
                 idx \cup {<<i, j, k, ik, jk>>})
    ELSE [sum |-> sumL, acc |-> acc, idx |-> idx]

\* The loop over j of one outer iteration i.
RECURSIVE SLAU_rowLoop(_, _, _, _, _, _, _)
SLAU_rowLoop(s, oob, n, m, i, j, sumD) ==
    IF j <= i + m /\ j < n
    THEN LET baseIndexI == m - i
             baseIndexJ == m - j
         IN  IF j < i
             THEN LET indexIJ == baseIndexI + j
                      a == Rd(s.AL, oob, i, indexIJ)
                  IN  SLAU_rowLoop([s EXCEPT !.acc = @ \cup {<<i, indexIJ>>}],
                          oob, n, m, i, j + 1,
                          Add(sumD, Mul(Mul(a, a), s.D[j])))
             ELSE IF j = i
             THEN SLAU_rowLoop([s EXCEPT !.D[i] = Sub(@, sumD)],
                      oob, n, m, i, j + 1, sumD)
             ELSE LET r == SLAU_sumL(s, oob, i, j, Max(0, i - m),
                               baseIndexI, baseIndexJ, Zero(1), s.acc,
                               s.idx)
                      indexJI == baseIndexJ + i
                  IN  SLAU_rowLoop(
                          [s EXCEPT !.AL[j][indexJI] =
                                        Div(Sub(@, r.sum), s.D[i]),
                                    !.acc = r.acc \cup {<<j, indexJI>>},
                                    !.idx = r.idx,
                                    !.divz = @ \/ IsZero(s.D[i])],
                          oob, n, m, i, j + 1, sumD)
    ELSE s

\* The outer loop over i.
RECURSIVE SLAU_outerLoop(_, _, _, _, _)
SLAU_outerLoop(s, oob, n, m, i) ==
    IF i < n
    THEN SLAU_outerLoop(
             SLAU_rowLoop(s, oob, n, m, i, Max(0, i - m), Zero(1)),
             oob, n, m, i + 1)
    ELSE s

SLAU_decompose(AL, D, oob, n, m) ==
    SLAU_outerLoop([AL |-> AL, D |-> D, acc |-> {}, divz |-> FALSE,
                    idx |-> {}],
                   oob, n, m, 0)

\* ------------------------------------------------------------------------
\* LDLT::performLDLtDecomposition (src/src/LDLT.cpp; the body of the loop is
\* the same in src/unnamed/part_004).  k is the half-bandwidth there.
\* ------------------------------------------------------------------------

\* LDLT_sumD with matrixAL[i][k - i + j] taken once instead of squared.
RECURSIVE LDLT_sumD_unsquared(_, _, _, _, _, _, _)
LDLT_sumD_unsquared(s, oob, k, i, j, sumD, acc) ==
    IF j < i
    THEN LET a == Rd(s.AL, oob, i, k - i + j)
         IN  LDLT_sumD_unsquared(s, oob, k, i, j + 1,
                 Add(sumD, Mul(a, s.D[j])),
                 acc \cup {<<i, k - i + j>>})
    ELSE [sum |-> sumD, acc |-> acc]

RECURSIVE LDLT_sumD(_, _, _, _, _, _, _)
LDLT_sumD(s, oob, k, i, j, sumD, acc) ==
    IF j < i
    THEN LET a == Rd(s.AL, oob, i, k - i + j)
         IN  LDLT_sumD(s, oob, k, i, j + 1,
                 Add(sumD, Mul(Mul(a, a), s.D[j])),
                 acc \cup {<<i, k - i + j>>})
    ELSE [sum |-> sumD, acc |-> acc]

RECURSIVE LDLT_sumL(_, _, _, _, _, _, _, _)
LDLT_sumL(s, oob, k, i, j, m, sumL, acc) ==
    IF m < i
    THEN LDLT_sumL(s, oob, k, i, j, m + 1,
             Add(sumL, Mul(Mul(Rd(s.AL, oob, j, k - j + m),
                               Rd(s.AL, oob, i, k - i + m)), s.D[m])),
             acc \cup {<<j, k - j + m>>, <<i, k - i + m>>})
    ELSE [sum |-> sumL, acc |-> acc]

\* LDLT_diagStep with the sum added instead of subtracted.
LDLT_diagStep_added(s, oob, k, i) ==
    LET r == LDLT_sumD(s, oob, k, i, Max(0, i - k), Zero(1), s.acc)
    IN  [s EXCEPT !.D[i] = Add(@, r.sum), !.acc = r.acc]

\* diagD[i] = diagD[i] - sumD
LDLT_diagStep(s, oob, k, i) ==
    LET r == LDLT_sumD(s, oob, k, i, Max(0, i - k), Zero(1), s.acc)
    IN  [s EXCEPT !.D[i] = Sub(@, r.sum), !.acc = r.acc]

\* matrixAL[j][k - j + i] = (matrixAL[j][k - j + i] - sumL) / diagD[i]
LDLT_bandStep(s, oob, k, i, j) ==
    LET r == LDLT_sumL(s, oob, k, i, j, Max(0, i - k), Zero(1), s.acc)
    IN  [s EXCEPT !.AL[j][k - j + i] = Div(Sub(@, r.sum), s.D[i]),
                  !.acc = r.acc \cup {<<j, k - j + i>>},
                  !.divz = @ \/ IsZero(s.D[i])]

RECURSIVE LDLT_bandLoop(_, _, _, _, _, _)
LDLT_bandLoop(s, oob, n, k, i, j) ==
    IF j < n /\ j <= i + k
    THEN LDLT_bandLoop(LDLT_bandStep(s, oob, k, i, j), oob, n, k, i, j + 1)
    ELSE s

RECURSIVE LDLT_outerLoop(_, _, _, _, _)
LDLT_outerLoop(s, oob, n, k, i) ==
    IF i < n
    THEN LDLT_outerLoop(
             LDLT_bandLoop(LDLT_diagStep(s, oob, k, i), oob, n, k, i, i + 1),
             oob, n, k, i + 1)
    ELSE s

LDLT_decompose(AL, D, oob, n, k) ==
    LDLT_outerLoop([AL |-> AL, D |-> D, acc |-> {}, divz |-> FALSE],
                   oob, n, k, 0)

\* ------------------------------------------------------------------------
\* SLAUSolverLDLT::solveLinearSystem: the three phases work in vectorF.
\* A solve state s is [F, acc, divz].
\* ------------------------------------------------------------------------

\* sum += matrixAL[i][indexIJ] * vectorF[j] for j = from .. i - 1
RECURSIVE SLAU_forwardSum(_, _, _, _, _, _, _)
SLAU_forwardSum(s, AL, oob, m, i, j, sum) ==
    IF j < i
    THEN LET indexIJ == (m - i) + j
         IN  SLAU_forwardSum([s EXCEPT !.acc = @ \cup {<<i, indexIJ>>}],
                 AL, oob, m, i, j + 1,
                 Add(sum, Mul(Rd(AL, oob, i, indexIJ), s.F[j])))
    ELSE [s EXCEPT !.F[i] = Sub(@, sum)]

RECURSIVE SLAU_forwardLoop(_, _, _, _, _, _)
SLAU_forwardLoop(s, AL, oob, n, m, i) ==
    IF i < n
    THEN SLAU_forwardLoop(
             SLAU_forwardSum(s, AL, oob, m, i, Max(0, i - m), Zero(1)),
             AL, oob, n, m, i + 1)
    ELSE s

solveForwardSubstitution(s, AL, oob, n, m) ==
    SLAU_forwardLoop(s, AL, oob, n, m, 0)

RECURSIVE SLAU_diagonalLoop(_, _, _, _)
SLAU_diagonalLoop(s, D, n, i) ==
    IF i < n
    THEN SLAU_diagonalLoop([s EXCEPT !.F[i] = Div(@, D[i]),
                                     !.divz = @ \/ IsZero(D[i])],
                           D, n, i + 1)
    ELSE s

solveDiagonalSubstitution(s, D, n) == SLAU_diagonalLoop(s, D, n, 0)

\* sum += matrixAL[j][indexJI] * vectorF[j] for j = i + 1 ..
RECURSIVE SLAU_backwardSum(_, _, _, _, _, _, _, _)
SLAU_backwardSum(s, AL, oob, n, m, i, j, sum) ==
    IF j < n /\ j <= i + m
    THEN LET indexJI == (m - j) + i
         IN  SLAU_backwardSum([s EXCEPT !.acc = @ \cup {<<j, indexJI>>}],
                 AL, oob, n, m, i, j + 1,
                 Add(sum, Mul(Rd(AL, oob, j, indexJI), s.F[j])))
    ELSE [s EXCEPT !.F[i] = Sub(@, sum)]

RECURSIVE SLAU_backwardLoop(_, _, _, _, _, _)
SLAU_backwardLoop(s, AL, oob, n, m, i) ==
    IF i >= 0
    THEN SLAU_backwardLoop(
             SLAU_backwardSum(s, AL, oob, n, m, i, i + 1, Zero(1)),
             AL, oob, n, m, i - 1)
    ELSE s

\* solveBackwardSubstitution with the rows taken from 0 upwards: row i then
\* reads entries of vectorF the sweep has not yet replaced.
RECURSIVE SLAU_backwardLoop_ascending(_, _, _, _, _, _)
SLAU_backwardLoop_ascending(s, AL, oob, n, m, i) ==
    IF i < n
    THEN SLAU_backwardLoop_ascending(
             SLAU_backwardSum(s, AL, oob, n, m, i, i + 1, Zero(1)),
             AL, oob, n, m, i + 1)
    ELSE s

solveBackwardSubstitution_ascending(s, AL, oob, n, m) ==
    SLAU_backwardLoop_ascending(s, AL, oob, n, m, 0)

solveBackwardSubstitution(s, AL, oob, n, m) ==
    SLAU_backwardLoop(s, AL, oob, n, m, n - 1)

SLAU_solve(AL, D, F, oob, n, m) ==
    solveBackwardSubstitution(
        solveDiagonalSubstitution(
            solveForwardSubstitution([F |-> F, acc |-> {}, divz |-> FALSE],
                                     AL, oob, n, m),
            D, n),
        AL, oob, n, m)

\* ------------------------------------------------------------------------
\* LDLT::solveLinearSystem: y, z and X are buffers of their own.
\* A solve state s is [y, z, X, acc, divz].
\* ------------------------------------------------------------------------

RECURSIVE LDLT_forwardSum(_, _, _, _, _, _, _, _)
LDLT_forwardSum(s, AL, F, oob, k, i, j, sum) ==
    IF j < i
    THEN LDLT_forwardSum([s EXCEPT !.acc = @ \cup {<<i, k - i + j>>}],
             AL, F, oob, k, i, j + 1,
             Add(sum, Mul(Rd(AL, oob, i, k - i + j), s.y[j])))
    ELSE [s EXCEPT !.y[i] = Sub(F[i], sum)]

RECURSIVE LDLT_forwardLoop(_, _, _, _, _, _, _)
LDLT_forwardLoop(s, AL, F, oob, n, k, i) ==
    IF i < n
    THEN LDLT_forwardLoop(
             LDLT_forwardSum(s, AL, F, oob, k, i, Max(0, i - k), Zero(1)),
             AL, F, oob, n, k, i + 1)
    ELSE s

\* z[i] = y[i] / diagD[i]
\* LDLT_diagonalStep with a carried dependence: z[i] also takes z[i - 1].
LDLT_diagonalStep_chained(s, D, i) ==
    [s EXCEPT !.z[i] = Div(Sub(s.y[i], IF i > 0 THEN s.z[i - 1] ELSE Zero(1)),
                           D[i]),
              !.divz = @ \/ IsZero(D[i])]

LDLT_diagonalStep(s, D, i) ==
    [s EXCEPT !.z[i] = Div(s.y[i], D[i]), !.divz = @ \/ IsZero(D[i])]

RECURSIVE LDLT_diagonalLoop(_, _, _, _)
LDLT_diagonalLoop(s, D, n, i) ==
    IF i < n
    THEN LDLT_diagonalLoop(LDLT_diagonalStep(s, D, i), D, n, i + 1)
    ELSE s

RECURSIVE LDLT_backwardSum(_, _, _, _, _, _, _, _)
LDLT_backwardSum(s, AL, oob, n, k, i, j, sum) ==
    IF j < n /\ j <= i + k
    THEN LDLT_backwardSum([s EXCEPT !.acc = @ \cup {<<j, k - j + i>>}],
             AL, oob, n, k, i, j + 1,
             Add(sum, Mul(Rd(AL, oob, j, k - j + i), s.X[j])))
    ELSE [s EXCEPT !.X[i] = Sub(s.z[i], sum)]

RECURSIVE LDLT_backwardLoop(_, _, _, _, _, _)
LDLT_backwardLoop(s, AL, oob, n, k, i) ==
    IF i >= 0
    THEN LDLT_backwardLoop(
             LDLT_backwardSum(s, AL, oob, n, k, i, i + 1, Zero(1)),
             AL, oob, n, k, i - 1)
    ELSE s

LDLT_solve(AL, D, F, y, z, X, oob, n, k) ==
    LDLT_backwardLoop(
        LDLT_diagonalLoop(
            LDLT_forwardLoop([y |-> y, z |-> z, X |-> X, acc |-> {},
                              divz |-> FALSE],
                             AL, F, oob, n, k, 0),
            D, n, 0),
        AL, oob, n, k, n - 1)

\* ------------------------------------------------------------------------
\* Matrix-vector product and dense reconstruction.  What an operation sends
\* to cout is modelled by the values streamed, before their formatting.
\* ------------------------------------------------------------------------

\* SLAUSolverLDLT::printMultiplyMatrixToVector, the loop over j of row i:
\* r is [val, acc].
RECURSIVE SLAU_multiplyRow(_, _, _, _, _, _, _, _)
SLAU_multiplyRow(r, AL, F, oob, n, m, i, j) ==
    IF j < n
    THEN IF i = j
         THEN SLAU_multiplyRow(r, AL, F, oob, n, m, i, j + 1)
         ELSE IF j < i /\ (i - j) <= m
         THEN LET indexIJ == (m - i) + j
              IN  SLAU_multiplyRow(
                      [val |-> Add(r.val, Mul(Rd(AL, oob, i, indexIJ), F[j])),
                       acc |-> r.acc \cup {<<i, indexIJ>>}],
                      AL, F, oob, n, m, i, j + 1)
         ELSE IF i < j /\ (j - i) <= m
         THEN LET indexJI == (m - j) + i
              IN  SLAU_multiplyRow(
                      [val |-> Add(r.val, Mul(Rd(AL, oob, j, indexJI), F[j])),
                       acc |-> r.acc \cup {<<j, indexJI>>}],
                      AL, F, oob, n, m, i, j + 1)
         ELSE SLAU_multiplyRow(r, AL, F, oob, n, m, i, j + 1)
    ELSE r

\* s is [out, acc]: the values printed so far and the cells indexed.
RECURSIVE SLAU_multiplyLoop(_, _, _, _, _, _, _, _)
SLAU_multiplyLoop(s, AL, D, F, oob, n, m, i) ==
    IF i < n
    THEN LET r == SLAU_multiplyRow([val |-> Mul(D[i], F[i]), acc |-> s.acc],
                                   AL, F, oob, n, m, i, 0)
         IN  SLAU_multiplyLoop([out |-> Append(s.out, r.val), acc |-> r.acc],
                               AL, D, F, oob, n, m, i + 1)
    ELSE s

printMultiplyMatrixToVector(AL, D, F, oob, n, m) ==
    SLAU_multiplyLoop([out |-> <<>>, acc |-> {}], AL, D, F, oob, n, m, 0)

\* LDLT::printMultiplyMatrixToVectorX (src/unnamed/part_004): result is a
\* local vector(n, 0.0); s is [result, acc].
RECURSIVE OMP_multiplyRow(_, _, _, _, _, _, _, _)
OMP_multiplyRow(s, AL, X, oob, n, k, i, j) ==
    IF j < n
    THEN IF i = j
         THEN OMP_multiplyRow(s, AL, X, oob, n, k, i, j + 1)
         ELSE IF j < i /\ (i - j) <= k
         THEN OMP_multiplyRow(
                  [s EXCEPT !.result[i] =
                                Add(@, Mul(Rd(AL, oob, i, k - i + j), X[j])),
                            !.acc = @ \cup {<<i, k - i + j>>}],
                  AL, X, oob, n, k, i, j + 1)
         ELSE IF i < j /\ (j - i) <= k
         THEN OMP_multiplyRow(
                  [s EXCEPT !.result[i] =
                                Add(@, Mul(Rd(AL, oob, j, k - j + i), X[j])),
                            !.acc = @ \cup {<<j, k - j + i>>}],
                  AL, X, oob, n, k, i, j + 1)
         ELSE OMP_multiplyRow(s, AL, X, oob, n, k, i, j + 1)
    ELSE s

RECURSIVE OMP_multiplyLoop(_, _, _, _, _, _, _, _)
OMP_multiplyLoop(s, AL, D, X, oob, n, k, i) ==
    IF i < n
    THEN OMP_multiplyLoop(
             OMP_multiplyRow([s EXCEPT !.result[i] = Add(@, Mul(D[i], X[i]))],
                             AL, X, oob, n, k, i, 0),
             AL, D, X, oob, n, k, i + 1)
    ELSE s

printMultiplyMatrixToVectorX(AL, D, X, oob, n, k) ==
    OMP_multiplyLoop([result |-> ZeroVector(n), acc |-> {}],
                     AL, D, X, oob, n, k, 0)

\* LDLT::printMultiplyByVector (src/src/LDLT.cpp): result is the member
\* vector, which the method adds to; s is [result, acc].
RECURSIVE LDLT_multiplyRow(_, _, _, _, _, _, _)
LDLT_multiplyRow(s, AL, X, oob, k, i, j) ==
    IF j <= i
    THEN LET a == Rd(AL, oob, i, k - i + j)
             s1 == [s EXCEPT !.result[i] = Add(@, Mul(a, X[j])),
                             !.acc = @ \cup {<<i, k - i + j>>}]
             s2 == IF i # j
                   THEN [s1 EXCEPT !.result[j] = Add(@, Mul(a, X[i]))]
                   ELSE s1
         IN  LDLT_multiplyRow(s2, AL, X, oob, k, i, j + 1)
    ELSE s

RECURSIVE LDLT_multiplyLoop(_, _, _, _, _, _, _)
LDLT_multiplyLoop(s, AL, X, oob, n, k, i) ==
    IF i < n
    THEN LDLT_multiplyLoop(
             LDLT_multiplyRow(s, AL, X, oob, k, i, Max(0, i - k)),
             AL, X, oob, n, k, i + 1)
    ELSE s

RECURSIVE LDLT_multiplyDiag(_, _, _, _, _)
LDLT_multiplyDiag(s, D, X, n, i) ==
    IF i < n
    THEN LDLT_multiplyDiag([s EXCEPT !.result[i] = Add(@, Mul(D[i], X[i]))],
                           D, X, n, i + 1)
    ELSE s

printMultiplyByVector(result, AL, D, X, oob, n, k) ==
    LDLT_multiplyDiag(
        LDLT_multiplyLoop([result |-> result, acc |-> {}], AL, X, oob, n, k, 0),
        D, X, n, 0)

\* LDLT::multiplyBandMatrix (src/src/LDLT.cpp): the dense matrix A it
\* prints; s is [A, acc].
RECURSIVE LDLT_bandProductSum(_, _, _, _, _, _, _, _)
LDLT_bandProductSum(r, AL, D, oob, k, i, j, m) ==
    IF m < j
    THEN LDLT_bandProductSum(
             [val |-> Add(r.val, Mul(Mul(Rd(AL, oob, i, k - i + m), D[m]),
                                     Rd(AL, oob, j, k - j + m))),
              acc |-> r.acc \cup {<<i, k - i + m>>, <<j, k - j + m>>}],
             AL, D, oob, k, i, j, m + 1)
    ELSE r

RECURSIVE LDLT_bandProductRow(_, _, _, _, _, _, _)
LDLT_bandProductRow(s, AL, D, oob, k, i, j) ==
    IF j < i
    THEN LET r == LDLT_bandProductSum([val |-> Zero(1), acc |-> s.acc],
                                      AL, D, oob, k, i, j, Max(0, j - k))
             a == Add(Mul(Rd(AL, oob, i, k - i + j), D[j]), r.val)
         IN  LDLT_bandProductRow(
                 [A |-> [s.A EXCEPT ![i][j] = a, ![j][i] = a],
                  acc |-> r.acc \cup {<<i, k - i + j>>}],
                 AL, D, oob, k, i, j + 1)
    ELSE s

RECURSIVE LDLT_bandProductLoop(_, _, _, _, _, _, _)
LDLT_bandProductLoop(s, AL, D, oob, n, k, i) ==
    IF i < n
    THEN LDLT_bandProductLoop(
             LDLT_bandProductRow([s EXCEPT !.A[i][i] = D[i]],
                                 AL, D, oob, k, i, Max(0, i - k)),
             AL, D, oob, n, k, i + 1)
    ELSE s

multiplyBandMatrix(AL, D, oob, n, k) ==
    LDLT_bandProductLoop([A |-> ZeroMatrix(n, n), acc |-> {}],
                         AL, D, oob, n, k, 0)

\* printRestoredMatrix (the same in the three classes): entry (i, j) of the
\* dense matrix printed, and the cell of matrixAL it indexes.
\* RestoredEntry with the band test i - j < m in place of i - j <= m.
RestoredEntry_narrowBand(AL, D, oob, m, i, j) ==
    IF i = j THEN D[i]
    ELSE IF j < i /\ (i - j) < m THEN Rd(AL, oob, i, (m - i) + j)
    ELSE IF i < j /\ (j - i) < m THEN Rd(AL, oob, j, (m - j) + i)
    ELSE Zero(1)

RestoredEntry(AL, D, oob, m, i, j) ==
    IF i = j THEN D[i]
    ELSE IF j < i /\ (i - j) <= m THEN Rd(AL, oob, i, (m - i) + j)
    ELSE IF i < j /\ (j - i) <= m THEN Rd(AL, oob, j, (m - j) + i)
    ELSE Zero(1)

RestoredCells(n, m) ==
    {<<i, (m - i) + j>> : <<i, j>> \in
        {p \in (0 .. n - 1) \X (0 .. n - 1) : p[2] < p[1] /\ p[1] - p[2] <= m}}

printRestoredMatrix(AL, D, oob, n, m) ==
    [out |-> [i \in 0 .. n - 1 |->
                 [j \in 0 .. n - 1 |-> RestoredEntry(AL, D, oob, m, i, j)]],
     acc |-> RestoredCells(n, m)]

\* ------------------------------------------------------------------------
\* SLAUSolverLDLT::initialize, HilbertBandMatrix, returnMatixAfterHilbert.
\* A store state s is [AL, D, F].
\* ------------------------------------------------------------------------

\* v.resize(len, fill): the elements v already has stay as they are, the
\* new ones are copies of fill.
Resize(v, len, fill) ==
    [i \in 0 .. len - 1 |-> IF i \in DOMAIN v THEN v[i] ELSE fill]

initialize(s, a, b) ==
    [AL |-> Resize(s.AL, a, ZeroVector(b)),
     D |-> Resize(s.D, a, Zero(1)),
     F |-> Resize(s.F, a, Zero(1))]

\* matrixAL[i][indexIJ] = 1.0 / (i + j + 1) for the j of row i.
RECURSIVE Hilbert_rowLoop(_, _, _, _)
Hilbert_rowLoop(s, m, i, j) ==
    IF j < i
    THEN Hilbert_rowLoop([s EXCEPT !.AL[i][(m - i) + j] = Frac(1, i + j + 1)],
                         m, i, j + 1)
    ELSE s

RECURSIVE Hilbert_loop(_, _, _, _)
Hilbert_loop(s, n, m, i) ==
    IF i < n
    THEN Hilbert_loop(
             Hilbert_rowLoop([s EXCEPT !.D[i] = Frac(1, 2 * i + 1),
                                       !.F[i] = Num(i + 1)],
                             m, i, Max(0, i - m)),
             n, m, i + 1)
    ELSE s

HilbertBandMatrix(s, n, m) == Hilbert_loop(s, n, m, 1)

RECURSIVE ReturnHilbert_rowLoop(_, _, _, _)
ReturnHilbert_rowLoop(s, m, i, j) ==
    IF j < i
    THEN ReturnHilbert_rowLoop(
             [s EXCEPT !.AL[i][(m - i) + j] = Frac(1, i + j + 1)],
             m, i, j + 1)
    ELSE s

RECURSIVE ReturnHilbert_loop(_, _, _, _)
ReturnHilbert_loop(s, n, m, i) ==
    IF i < n
    THEN ReturnHilbert_loop(
             ReturnHilbert_rowLoop([s EXCEPT !.D[i] = Frac(1, 2 * i + 1)],
                                   m, i, Max(0, i - m)),
             n, m, i + 1)
    ELSE s

\* returnMatixAfterHilbert with the loop started one row later.
returnMatixAfterHilbert_skipsRowOne(s, n, m) == ReturnHilbert_loop(s, n, m, 2)

returnMatixAfterHilbert(s, n, m) == ReturnHilbert_loop(s, n, m, 1)

\* ------------------------------------------------------------------------
\* Bounds and inputs
\* ------------------------------------------------------------------------

\* Largest matrix order and largest half-bandwidth of the enumerated
\* input files.
MaxN == 3

MaxM == 2

\* Calls of solveLinearSystem on one object.
MaxSolves == 2

\* Calls of LDLT::printMultiplyByVector on one object.
MaxMultiplies == 2

DiagVals == {Num(1), Num(2)}

BandVals == {Num(0), Num(1)}

\* What a read outside a row's storage may find: within one operation
\* every such read finds the same value, one of GarbageVals.
GarbageVals == {Zero(1), Num(1)}

OobChoices(cells) == {[c \in cells |-> g] : g \in GarbageVals}

\* input.txt holds a and b.
Dims == (-1 .. MaxN) \X (-1 .. MaxM)

\* The slots of an a x b band that hold an entry of the matrix: slot c of
\* row i is column i - b + c.  The other slots of AL.txt hold 0.
UsedCells(a, b) ==
    {c \in (0 .. a - 1) \X (0 .. b - 1) : c[1] - b + c[2] >= 0}

\* The enumerated AL.txt hold one value per sub-diagonal: u[t] at distance
\* t = b - c from the diagonal.
BandFiles(a, b) ==
    {[i \in 0 .. a - 1 |->
         [c \in 0 .. b - 1 |->
             IF <<i, c>> \in UsedCells(a, b) THEN u[b - c] ELSE Zero(1)]] :
        u \in [1 .. b -> BandVals]}

\* F.txt holds 1, 2, ..., a.
RhsFile(a) == [i \in 0 .. a - 1 |-> Num(i + 1)]

FilesOf(d) ==
    [input : {d}, AL : BandFiles(d[1], d[2]),
     D : [0 .. d[1] - 1 -> DiagVals], F : {RhsFile(d[1])}]

\* n = 3, m = 1, diagonal (4, 5, 6), A(1,0) = 2, A(2,1) = 3, f = (1, 2, 3).
Scenario ==
    [input |-> <<3, 1>>,
     AL |-> [i \in 0 .. 2 |->
                [c \in 0 .. 0 |-> IF i = 0 THEN Zero(1) ELSE Num(i + 1)]],
     D |-> [i \in 0 .. 2 |-> Num(i + 4)],
     F |-> RhsFile(3)]

\* n = 5, m = 2, A = L * D * L^T for the unit lower band L whose two
\* sub-diagonals are all 1 and D = 2 I: diagonal (2, 4, 6, 6, 6), first
\* sub-diagonal (2, 4, 4, 4), second sub-diagonal (2, 2, 2), f = (1, .., 5).
\* Rows 3 and 4 lie below the band of column 0: max(0, i - m) > 0 there.
WideScenario ==
    [input |-> <<5, 2>>,
     AL |-> [i \in 0 .. 4 |->
                [c \in 0 .. 1 |->
                    IF <<i, c>> \notin UsedCells(5, 2) THEN Zero(1)
                    ELSE IF c = 0 \/ i = 1 THEN Num(2) ELSE Num(4)]],
     D |-> [i \in 0 .. 4 |-> IF i = 0 THEN Num(2)
                              ELSE IF i = 1 THEN Num(4) ELSE Num(6)],
     F |-> RhsFile(5)]

Environments == UNION {FilesOf(d) : d \in Dims} \cup {Scenario}

\* The sequential classes are also run on the 5 x 5 matrix.
WideEnvironments == Environments \cup {WideScenario}

InputFiles == {"input", "AL", "D", "F"}

\* ------------------------------------------------------------------------
\* State
\* ------------------------------------------------------------------------

VARIABLES
    cls,        \* the class of the object: "SLAUSolverLDLT", "LDLT", "LDLT_omp"
    files,      \* the data files: input.txt, AL.txt, D.txt, F.txt
    pc,         \* how far main has come, "exit1" once it has returned 1
    err,        \* what() of the exception main caught
    n, m,       \* matrix order and half-bandwidth (k in class LDLT)
    matrixAL, diagD, vectorF,
    y, z, X,    \* LDLT's buffers (X is vectorX in part_004)
    result,     \* LDLT's member vector result (src/src/LDLT.cpp)
    solveFile,  \* the values written to the solution file, <<>> before
    op,         \* the last operation executed
    out,        \* the values it sent to cout, <<>> if none
    acc,        \* the cells <<row, slot>> of matrixAL it indexed
    divz,       \* a division by a zero diagD[i] has been executed
    solves, mults,
    iter,       \* part_004: the progress of the iterations of the parallel loop
    idx,        \* SLAUSolverLDLT::performLDLtDecomposition: the
                \* <<i, j, k, indexIK, indexJK>> its innermost loop used
    failed      \* the input file the constructor could not open, or "none"

vars == <<cls, files, pc, err, n, m, matrixAL, diagD, vectorF, y, z, X,
          result, solveFile, op, out, acc, divz, solves, mults, iter,
          idx, failed>>

store == <<n, m, matrixAL, diagD>>

buffers == <<y, z, X, result>>

env == <<cls, files>>

InitOf(classes, environments) ==
    /\ cls \in classes
    /\ files \in environments
    /\ pc = "start"
    /\ err = ""
    /\ n = 0
    /\ m = 0
    /\ matrixAL = <<>>
    /\ diagD = <<>>
    /\ vectorF = <<>>
    /\ y = <<>>
    /\ z = <<>>
    /\ X = <<>>
    /\ result = <<>>
    /\ solveFile = <<>>
    /\ op = "none"
    /\ out = <<>>
    /\ acc = {}
    /\ divz = FALSE
    /\ solves = 0
    /\ mults = 0
    /\ iter = <<>>
    /\ idx = {}
    /\ failed = "none"

Init == InitOf({"SLAUSolverLDLT", "LDLT"}, WideEnvironments)

\* An exception leaves the try block of main: main prints it to cerr and
\* returns 1.
Throw(what) ==
    /\ pc' = "exit1"
    /\ err' = what
    /\ out' = <<>>

\* ------------------------------------------------------------------------
\* Construction
\* ------------------------------------------------------------------------

\* file.is_open() of an input file, when failing is the file that cannot
\* be opened; with every file reported open:
is_open_always(failing, file) == TRUE

is_open(failing, file) == failing # file

\* The constructor: loadFromFile(input), the resizes (initialize in
\* SLAUSolverLDLT), then the three loads.  failing is the file that cannot
\* be opened.  A negative size converts to a size_t above max_size(), and
\* vector(m, 0.0) or resize(n, ...) throws std::length_error.
Construct ==
    /\ pc = "start"
    /\ op' = "constructor"
    /\ \E failing \in {"none"} \cup InputFiles :
         LET a == files.input[1]
             b == files.input[2]
         IN  /\ failed' = failing
             /\ IF ~is_open(failing, "input")
                THEN /\ Throw("Could not open file")
                     /\ UNCHANGED <<store, vectorF, buffers>>
                ELSE IF a < 0 \/ b < 0
                THEN /\ Throw("length_error")
                     /\ UNCHANGED <<store, vectorF, buffers>>
                ELSE IF \E f \in {"AL", "D", "F"} : ~is_open(failing, f)
                THEN /\ Throw("Could not open file")
                     /\ UNCHANGED <<store, vectorF, buffers>>
                ELSE /\ pc' = "loaded"
                     /\ err' = err
                     /\ out' = <<>>
                     /\ n' = a
                     /\ m' = b
                     /\ matrixAL' = files.AL
                     /\ diagD' = files.D
                     /\ vectorF' = files.F
                     /\ IF cls = "SLAUSolverLDLT"
                        THEN UNCHANGED buffers
                        ELSE /\ y' = ZeroVector(a)
                             /\ z' = ZeroVector(a)
                             /\ X' = ZeroVector(a)
                             /\ result' = IF cls = "LDLT" THEN ZeroVector(a)
                                          ELSE <<>>
    /\ UNCHANGED <<env, idx, solveFile, acc, divz, solves, mults, iter>>

\* ------------------------------------------------------------------------
\* Operations of SLAUSolverLDLT (src/src/SLAUSolverLDLT.cpp), called in the
\* order of src/Main.cpp, solveLinearSystem up to MaxSolves times.
\* ------------------------------------------------------------------------

SLAU_performLDLtDecomposition ==
    /\ cls = "SLAUSolverLDLT"
    /\ op' = "performLDLtDecomposition"
    /\ pc \in {"loaded", "hilbert"}
    /\ \E oob \in OobChoices(OutOfRange(
                     SLAU_decompose(matrixAL, diagD, <<>>, n, m).acc, n, m)) :
         LET s == SLAU_decompose(matrixAL, diagD, oob, n, m)
         IN  /\ matrixAL' = s.AL
             /\ diagD' = s.D
             /\ acc' = s.acc
             /\ idx' = s.idx
             /\ divz' = (divz \/ s.divz)
    /\ pc' = IF pc = "hilbert" THEN "hilbert_decomposed" ELSE "decomposed"
    /\ out' = <<>>
    /\ UNCHANGED <<env, failed, err, n, m, vectorF, buffers, solveFile, solves,
                   mults, iter>>

\* SLAU_solveLinearSystem with a diagonal substitution that also divides
\* diagD[i] by itself.
SLAU_solveLinearSystem_scalesDiag ==
    /\ cls = "SLAUSolverLDLT"
    /\ op' = "solveLinearSystem"
    /\ pc \in {"decomposed", "solved"}
    /\ solves < MaxSolves
    /\ \E oob \in OobChoices(OutOfRange(
                     SLAU_solve(matrixAL, diagD, vectorF, <<>>, n, m).acc,
                     n, m)) :
         LET s == SLAU_solve(matrixAL, diagD, vectorF, oob, n, m)
         IN  /\ vectorF' = s.F
             /\ acc' = s.acc
             /\ divz' = (divz \/ s.divz)
    /\ diagD' = [i \in DOMAIN diagD |-> Div(diagD[i], diagD[i])]
    /\ pc' = "solved"
    /\ out' = <<>>
    /\ solves' = solves + 1
    /\ UNCHANGED <<env, idx, failed, err, n, m, matrixAL, buffers, solveFile, mults, iter>>

SLAU_solveLinearSystem ==
    /\ cls = "SLAUSolverLDLT"
    /\ op' = "solveLinearSystem"
    /\ pc \in {"decomposed", "solved"}
    /\ solves < MaxSolves
    /\ \E oob \in OobChoices(OutOfRange(
                     SLAU_solve(matrixAL, diagD, vectorF, <<>>, n, m).acc,
                     n, m)) :
         LET s == SLAU_solve(matrixAL, diagD, vectorF, oob, n, m)
         IN  /\ vectorF' = s.F
             /\ acc' = s.acc
             /\ divz' = (divz \/ s.divz)
    /\ pc' = "solved"
    /\ out' = <<>>
    /\ solves' = solves + 1
    /\ UNCHANGED <<env, idx, failed, err, store, buffers, solveFile, mults, iter>>

\* opened: whether the solution file could be opened for writing.
writeVectorFToFile ==
    /\ cls = "SLAUSolverLDLT"
    /\ op' = "writeVectorFToFile"
    /\ pc = "solved"
    /\ \E opened \in BOOLEAN :
         IF opened
         THEN /\ solveFile' = vectorF
              /\ out' = <<>>
              /\ UNCHANGED <<pc, err>>
         ELSE /\ Throw("Could not open file")
              /\ UNCHANGED solveFile
    /\ acc' = {}
    /\ UNCHANGED <<env, idx, failed, store, vectorF, buffers, divz, solves, mults, iter>>

\* returnMatix loads matrixAL and diagD again from AL.txt and D.txt.
SLAU_returnMatix ==
    /\ cls = "SLAUSolverLDLT"
    /\ op' = "returnMatix"
    /\ pc = "solved"
    /\ \E failing \in {"none", "AL", "D"} :
         IF failing = "none"
         THEN /\ matrixAL' = files.AL
              /\ diagD' = files.D
              /\ pc' = "restored"
              /\ out' = <<>>
              /\ err' = err
         ELSE /\ Throw("Could not open file")
              /\ matrixAL' = matrixAL
              /\ diagD' = diagD
    /\ acc' = {}
    /\ UNCHANGED <<env, idx, failed, n, m, vectorF, buffers, solveFile, divz, solves,
                   mults, iter>>

SLAU_printMultiplyMatrixToVector ==
    /\ cls = "SLAUSolverLDLT"
    /\ op' = "printMultiplyMatrixToVector"
    /\ pc = "restored"
    /\ \E oob \in OobChoices(OutOfRange(
                     printMultiplyMatrixToVector(
                         matrixAL, diagD, vectorF, <<>>, n, m).acc, n, m)) :
         LET s == printMultiplyMatrixToVector(matrixAL, diagD, vectorF, oob,
                                              n, m)
         IN  /\ out' = s.out
             /\ acc' = s.acc
    /\ UNCHANGED <<env, idx, failed, pc, err, store, vectorF, buffers, solveFile, divz,
                   solves, mults, iter>>

\* ------------------------------------------------------------------------
\* Operations of LDLT (src/src/LDLT.cpp), called in the order of its main
\* (src/unnamed/part_001), with the printing operations in between.
\* ------------------------------------------------------------------------

LDLT_performLDLtDecomposition ==
    /\ cls = "LDLT"
    /\ op' = "performLDLtDecomposition"
    /\ pc = "loaded"
    /\ \E oob \in OobChoices(OutOfRange(
                     LDLT_decompose(matrixAL, diagD, <<>>, n, m).acc, n, m)) :
         LET s == LDLT_decompose(matrixAL, diagD, oob, n, m)
         IN  /\ matrixAL' = s.AL
             /\ diagD' = s.D
             /\ acc' = s.acc
             /\ divz' = (divz \/ s.divz)
    /\ pc' = "decomposed"
    /\ out' = <<>>
    /\ UNCHANGED <<env, idx, failed, err, n, m, vectorF, buffers, solveFile, solves,
                   mults, iter>>

\* solveLinearSystem ends with writeSolutionToFile().
LDLT_solveLinearSystem ==
    /\ cls = "LDLT"
    /\ op' = "solveLinearSystem"
    /\ pc \in {"decomposed", "solved"}
    /\ solves < MaxSolves
    /\ \E oob \in OobChoices(OutOfRange(
                     LDLT_solve(matrixAL, diagD, vectorF, y, z, X, <<>>,
                                n, m).acc, n, m)),
          opened \in BOOLEAN :
         LET s == LDLT_solve(matrixAL, diagD, vectorF, y, z, X, oob, n, m)
         IN  /\ y' = s.y
             /\ z' = s.z
             /\ X' = s.X
             /\ acc' = s.acc
             /\ divz' = (divz \/ s.divz)
             /\ IF opened
                THEN /\ solveFile' = s.X
                     /\ pc' = "solved"
                     /\ out' = <<>>
                     /\ err' = err
                ELSE /\ Throw("Could not open file")
                     /\ UNCHANGED solveFile
    /\ solves' = solves + 1
    /\ UNCHANGED <<env, idx, failed, store, vectorF, result, mults, iter>>

writeSolutionToFile ==
    /\ cls = "LDLT"
    /\ op' = "writeSolutionToFile"
    /\ pc = "solved"
    /\ \E opened \in BOOLEAN :
         IF opened
         THEN /\ solveFile' = X
              /\ out' = <<>>
              /\ UNCHANGED <<pc, err>>
         ELSE /\ Throw("Could not open file")
              /\ UNCHANGED solveFile
    /\ acc' = {}
    /\ UNCHANGED <<env, idx, failed, store, vectorF, buffers, divz, solves, mults, iter>>

LDLT_printMultiplyByVector ==
    /\ cls = "LDLT"
    /\ op' = "printMultiplyByVector"
    /\ pc = "solved"
    /\ mults < MaxMultiplies
    /\ \E oob \in OobChoices(OutOfRange(
                     printMultiplyByVector(
                         result, matrixAL, diagD, X, <<>>, n, m).acc, n, m)) :
         LET s == printMultiplyByVector(result, matrixAL, diagD, X, oob, n, m)
         IN  /\ result' = s.result
             /\ out' = s.result
             /\ acc' = s.acc
    /\ mults' = mults + 1
    /\ UNCHANGED <<env, idx, failed, pc, err, store, vectorF, y, z, X, solveFile, divz,
                   solves, iter>>

LDLT_multiplyBandMatrix ==
    /\ cls = "LDLT"
    /\ op' = "multiplyBandMatrix"
    /\ pc = "decomposed"
    /\ \E oob \in OobChoices(OutOfRange(
                     multiplyBandMatrix(matrixAL, diagD, <<>>, n, m).acc,
                     n, m)) :
         LET s == multiplyBandMatrix(matrixAL, diagD, oob, n, m)
         IN  /\ out' = s.A
             /\ acc' = s.acc
    /\ UNCHANGED <<env, idx, failed, pc, err, store, vectorF, buffers, solveFile, divz,
                   solves, mults, iter>>

\* PrintRestoredMatrix that stores each entry it prints back into diagD[i].
PrintRestoredMatrix_storesBack ==
    /\ cls \in {"SLAUSolverLDLT", "LDLT"}
    /\ op' = "printRestoredMatrix"
    /\ pc \in {"loaded", "decomposed"}
    /\ \E oob \in OobChoices(OutOfRange(
                     printRestoredMatrix(matrixAL, diagD, <<>>, n, m).acc,
                     n, m)) :
         LET s == printRestoredMatrix(matrixAL, diagD, oob, n, m)
         IN  /\ out' = s.out
             /\ acc' = s.acc
             /\ diagD' = [i \in DOMAIN diagD |-> s.out[i][n - 1]]
    /\ UNCHANGED <<env, idx, failed, pc, err, n, m, matrixAL, vectorF, buffers, solveFile,
                   divz, solves, mults, iter>>

\* printRestoredMatrix, the same code in both classes.
PrintRestoredMatrix ==
    /\ cls \in {"SLAUSolverLDLT", "LDLT"}
    /\ op' = "printRestoredMatrix"
    /\ pc \in {"loaded", "decomposed"}
    /\ \E oob \in OobChoices(OutOfRange(
                     printRestoredMatrix(matrixAL, diagD, <<>>, n, m).acc,
                     n, m)) :
         LET s == printRestoredMatrix(matrixAL, diagD, oob, n, m)
         IN  /\ out' = s.out
             /\ acc' = s.acc
    /\ UNCHANGED <<env, idx, failed, pc, err, store, vectorF, buffers, solveFile, divz,
                   solves, mults, iter>>

Next ==
    \/ Construct
    \/ SLAU_performLDLtDecomposition
    \/ SLAU_solveLinearSystem
    \/ writeVectorFToFile
    \/ SLAU_returnMatix
    \/ SLAU_printMultiplyMatrixToVector
    \/ LDLT_performLDLtDecomposition
    \/ LDLT_solveLinearSystem
    \/ writeSolutionToFile
    \/ LDLT_printMultiplyByVector
    \/ LDLT_multiplyBandMatrix
    \/ PrintRestoredMatrix

Spec == Init /\ [][Next]_vars

\* ------------------------------------------------------------------------
\* LDLT with OpenMP (src/unnamed/part_004), called in the order of its main
\* (src/unnamed/part_000).  "#pragma omp parallel for" hands the iterations
\* of the loop to the threads of a team: an iteration runs its statements in
\* program order, the iterations run in any interleaving.  iter[i] is the
\* progress of iteration i: -1 before its diagD[i] -= sumD, then the next
\* row j of its inner loop.  One statement (the sum it reads and the element
\* it assigns) is one step.
\* ------------------------------------------------------------------------

InitOmp == InitOf({"LDLT_omp"}, Environments)

\* Iteration i of the decomposition loop has run all its statements.
IterationDone(i) == iter[i] >= 0 /\ ~(iter[i] < n /\ iter[i] <= i + m)

OMP_beginDecomposition ==
    /\ cls = "LDLT_omp"
    /\ op' = "performLDLtDecomposition"
    /\ pc = "loaded"
    /\ pc' = "decomposing"
    /\ iter' = [i \in 0 .. n - 1 |-> -1]
    /\ acc' = {}
    /\ out' = <<>>
    /\ UNCHANGED <<env, idx, failed, err, store, vectorF, buffers, solveFile, divz,
                   solves, mults>>

\* diagD[i] -= sumD of iteration i.
OMP_diagStep(i) ==
    /\ pc = "decomposing"
    /\ iter[i] = -1
    /\ LET s0 == [AL |-> matrixAL, D |-> diagD, acc |-> acc, divz |-> divz]
       IN  \E oob \in OobChoices(OutOfRange(
                         LDLT_diagStep(s0, <<>>, m, i).acc, n, m)) :
             LET s == LDLT_diagStep(s0, oob, m, i)
             IN  /\ diagD' = s.D
                 /\ acc' = s.acc
    /\ iter' = [iter EXCEPT ![i] = i + 1]
    /\ UNCHANGED <<env, idx, failed, pc, err, n, m, matrixAL, vectorF, buffers, solveFile,
                   op, out, divz, solves, mults>>

\* matrixAL[j][k - j + i] = ... of iteration i, for its next row j.
OMP_bandStep(i) ==
    /\ pc = "decomposing"
    /\ iter[i] >= 0
    /\ iter[i] < n /\ iter[i] <= i + m
    /\ LET s0 == [AL |-> matrixAL, D |-> diagD, acc |-> acc, divz |-> divz]
       IN  \E oob \in OobChoices(OutOfRange(
                         LDLT_bandStep(s0, <<>>, m, i, iter[i]).acc, n, m)) :
             LET s == LDLT_bandStep(s0, oob, m, i, iter[i])
             IN  /\ matrixAL' = s.AL
                 /\ acc' = s.acc
                 /\ divz' = s.divz
    /\ iter' = [iter EXCEPT ![i] = @ + 1]
    /\ UNCHANGED <<env, idx, failed, pc, err, n, m, diagD, vectorF, buffers, solveFile,
                   op, out, solves, mults>>

\* The implicit barrier at the end of the parallel loop.
OMP_endDecomposition ==
    /\ pc = "decomposing"
    /\ \A i \in 0 .. n - 1 : IterationDone(i)
    /\ pc' = "decomposed"
    /\ iter' = <<>>
    /\ UNCHANGED <<env, idx, failed, err, store, vectorF, buffers, solveFile, op, out,
                   acc, divz, solves, mults>>

\* solveLinearSystem up to its parallel loop: the forward substitution.
OMP_beginSolve ==
    /\ cls = "LDLT_omp"
    /\ op' = "solveLinearSystem"
    /\ pc = "decomposed"
    /\ solves < MaxSolves
    /\ LET s0 == [y |-> y, z |-> z, X |-> X, acc |-> {}, divz |-> FALSE]
       IN  \E oob \in OobChoices(OutOfRange(
                         LDLT_forwardLoop(s0, matrixAL, vectorF, <<>>, n, m,
                                          0).acc, n, m)) :
             LET s == LDLT_forwardLoop(s0, matrixAL, vectorF, oob, n, m, 0)
             IN  /\ y' = s.y
                 /\ acc' = s.acc
    /\ pc' = "diagonal"
    /\ iter' = [i \in 0 .. n - 1 |-> -1]
    /\ out' = <<>>
    /\ UNCHANGED <<env, idx, failed, err, store, vectorF, z, X, result, solveFile, divz,
                   solves, mults>>

\* z[i] = y[i] / diagD[i], iteration i of the parallel loop.
OMP_diagonalStep(i) ==
    /\ pc = "diagonal"
    /\ iter[i] = -1
    /\ LET s == LDLT_diagonalStep(
                    [y |-> y, z |-> z, X |-> X, acc |-> acc, divz |-> divz],
                    diagD, i)
       IN  /\ z' = s.z
           /\ divz' = s.divz
    /\ iter' = [iter EXCEPT ![i] = 0]
    /\ UNCHANGED <<env, idx, failed, pc, err, store, vectorF, y, X, result, solveFile,
                   op, out, acc, solves, mults>>

\* After the barrier: the backward substitution and writeSolutionToFile().
OMP_endSolve ==
    /\ pc = "diagonal"
    /\ \A i \in 0 .. n - 1 : iter[i] = 0
    /\ LET s0 == [y |-> y, z |-> z, X |-> X, acc |-> acc, divz |-> divz]
       IN  \E oob \in OobChoices(OutOfRange(
                         LDLT_backwardLoop(s0, matrixAL, <<>>, n, m,
                                           n - 1).acc, n, m)),
              opened \in BOOLEAN :
             LET s == LDLT_backwardLoop(s0, matrixAL, oob, n, m, n - 1)
             IN  /\ X' = s.X
                 /\ acc' = s.acc
                 /\ IF opened
                    THEN /\ solveFile' = s.X
                         /\ pc' = "solved"
                         /\ out' = <<>>
                         /\ err' = err
                    ELSE /\ Throw("Could not open file")
                         /\ UNCHANGED solveFile
    /\ solves' = solves + 1
    /\ iter' = <<>>
    /\ UNCHANGED <<env, idx, failed, store, vectorF, y, z, result, op, divz, mults>>

OMP_returnMatix ==
    /\ cls = "LDLT_omp"
    /\ op' = "returnMatix"
    /\ pc = "solved"
    /\ \E failing \in {"none", "AL", "D"} :
         IF failing = "none"
         THEN /\ matrixAL' = files.AL
              /\ diagD' = files.D
              /\ pc' = "restored"
              /\ out' = <<>>
              /\ err' = err
         ELSE /\ Throw("Could not open file")
              /\ matrixAL' = matrixAL
              /\ diagD' = diagD
    /\ acc' = {}
    /\ UNCHANGED <<env, idx, failed, n, m, vectorF, buffers, solveFile, divz, solves,
                   mults, iter>>

OMP_printMultiplyMatrixToVectorX ==
    /\ cls = "LDLT_omp"
    /\ op' = "printMultiplyMatrixToVectorX"
    /\ pc = "restored"
    /\ \E oob \in OobChoices(OutOfRange(
                     printMultiplyMatrixToVectorX(
                         matrixAL, diagD, X, <<>>, n, m).acc, n, m)) :
         LET s == printMultiplyMatrixToVectorX(matrixAL, diagD, X, oob,
                                               n, m)
         IN  /\ out' = s.result
             /\ acc' = s.acc
    /\ UNCHANGED <<env, idx, failed, pc, err, store, vectorF, buffers, solveFile, divz,
                   solves, mults, iter>>

\* printRestoredMatrix of part_004, where main (part_000) calls it.
OMP_printRestoredMatrix ==
    /\ cls = "LDLT_omp"
    /\ op' = "printRestoredMatrix"
    /\ pc \in {"loaded", "decomposed", "restored"}
    /\ \E oob \in OobChoices(OutOfRange(
                     printRestoredMatrix(matrixAL, diagD, <<>>, n, m).acc,
                     n, m)) :
         LET s == printRestoredMatrix(matrixAL, diagD, oob, n, m)
         IN  /\ out' = s.out
             /\ acc' = s.acc
    /\ UNCHANGED <<env, idx, failed, pc, err, store, vectorF, buffers, solveFile, divz,
                   solves, mults, iter>>

NextOmp ==
    \/ OMP_printRestoredMatrix
    \/ Construct
    \/ OMP_beginDecomposition
    \/ \E i \in 0 .. n - 1 : OMP_diagStep(i)
    \/ \E i \in 0 .. n - 1 : OMP_bandStep(i)
    \/ OMP_endDecomposition
    \/ OMP_beginSolve
    \/ \E i \in 0 .. n - 1 : OMP_diagonalStep(i)
    \/ OMP_endSolve
    \/ OMP_returnMatix
    \/ OMP_printMultiplyMatrixToVectorX

SpecOmp == InitOmp /\ [][NextOmp]_vars

\* ------------------------------------------------------------------------
\* The public operations of SLAUSolverLDLT that its main does not call:
\* initialize, and HilbertBandMatrix with returnMatixAfterHilbert around a
\* decomposition.
\* ------------------------------------------------------------------------

InitSlau == InitOf({"SLAUSolverLDLT"}, Environments)

\* initialize(a, b) on the constructed object.  A negative a or b throws
\* std::length_error from the vector constructor or resize, after n and m
\* have been assigned.
SLAU_initialize ==
    /\ cls = "SLAUSolverLDLT"
    /\ op' = "initialize"
    /\ pc = "loaded"
    /\ \E d \in Dims :
         /\ n' = d[1]
         /\ m' = d[2]
         /\ IF d[1] < 0 \/ d[2] < 0
            THEN /\ Throw("length_error")
                 /\ UNCHANGED <<matrixAL, diagD, vectorF>>
            ELSE LET s == initialize([AL |-> matrixAL, D |-> diagD,
                                      F |-> vectorF], d[1], d[2])
                 IN  /\ matrixAL' = s.AL
                     /\ diagD' = s.D
                     /\ vectorF' = s.F
                     /\ pc' = "reinitialized"
                     /\ out' = <<>>
                     /\ err' = err
    /\ acc' = {}
    /\ UNCHANGED <<env, idx, failed, buffers, solveFile, divz, solves, mults, iter>>

SLAU_HilbertBandMatrix ==
    /\ cls = "SLAUSolverLDLT"
    /\ op' = "HilbertBandMatrix"
    /\ pc = "loaded"
    /\ LET s == HilbertBandMatrix([AL |-> matrixAL, D |-> diagD,
                                   F |-> vectorF], n, m)
       IN  /\ matrixAL' = s.AL
           /\ diagD' = s.D
           /\ vectorF' = s.F
    /\ pc' = "hilbert"
    /\ out' = <<>>
    /\ acc' = {}
    /\ UNCHANGED <<env, idx, failed, err, n, m, buffers, solveFile, divz, solves, mults,
                   iter>>

SLAU_returnMatixAfterHilbert ==
    /\ cls = "SLAUSolverLDLT"
    /\ op' = "returnMatixAfterHilbert"
    /\ pc = "hilbert_decomposed"
    /\ LET s == returnMatixAfterHilbert([AL |-> matrixAL, D |-> diagD,
                                         F |-> vectorF], n, m)
       IN  /\ matrixAL' = s.AL
           /\ diagD' = s.D
    /\ pc' = "hilbert_restored"
    /\ out' = <<>>
    /\ acc' = {}
    /\ UNCHANGED <<env, idx, failed, err, n, m, vectorF, buffers, solveFile, divz, solves,
                   mults, iter>>

NextSlau ==
    \/ Construct
    \/ SLAU_initialize
    \/ SLAU_HilbertBandMatrix
    \/ SLAU_performLDLtDecomposition
    \/ SLAU_returnMatixAfterHilbert

SpecSlau == InitSlau /\ [][NextSlau]_vars
\* ------------------------------------------------------------------------
\* Properties
\* ------------------------------------------------------------------------

\* Some diagD[i] of the store is exactly 0.
ZeroPivot == \E i \in DOMAIN diagD : IsZero(diagD[i])

\* C1: during performLDLtDecomposition, for n >= 1 and 0 <= m < n, every
\* access matrixAL[r][s] has 0 <= r < n and 0 <= s < m.
C1_DecompositionAccessInBand ==
    (op = "performLDLtDecomposition" /\ n >= 1 /\ 0 <= m /\ m < n)
        => \A c \in acc : c[1] \in 0 .. n - 1 /\ c[2] \in 0 .. m - 1

\* C2: with no zero pivot met, performLDLtDecomposition then
\* solveLinearSystem yield x such that the product of the original band and
\* diagonal with x, as printMultiplyMatrixToVector computes it after
\* returnMatix, equals the right-hand side f of F.txt.
C2_SolveCorrect ==
    (cls = "SLAUSolverLDLT" /\ op = "printMultiplyMatrixToVector"
        /\ solves = 1 /\ ~divz)
        => \A i \in 0 .. n - 1 : Eq(out[i + 1], files.F[i])

\* C3: the outer sweep of the decomposition is not run in parallel, so the
\* band and the diagonal it leaves are those of the sequential sweep
\* i = 0 .. n-1 (stated for the inputs whose sweep reads no cell outside
\* the storage, where the sequential sweep has one outcome).
C3_OuterSweepSequential ==
    (cls = "LDLT_omp" /\ pc = "decomposed"
        /\ op = "performLDLtDecomposition" /\ OutOfRange(acc, n, m) = {})
        => LET seq == LDLT_decompose(files.AL, files.D, <<>>, n, m)
           IN  matrixAL = seq.AL /\ diagD = seq.D

\* C4: solveLinearSystem never mutates the right-hand side: after the call
\* vectorF holds the values it had before the call.
C4_SolveKeepsRhs ==
    [][(op' = "solveLinearSystem") => (vectorF' = vectorF)]_vars

\* C5: a diagD[i] that is exactly 0 ends the operation in an error: with
\* such a pivot in the decomposed store no division by it has been
\* executed, no solve has completed and no solution has been written.
C5_FatalPivot ==
    (ZeroPivot /\ pc \in {"decomposed", "solved"})
        => (~divz /\ solves = 0 /\ solveFile = <<>>)

\* C6: with n <= 0, m < 0 or m >= n in input.txt, neither the decomposition
\* nor any substitution phase ever runs.
C6_BadDimensionsRejected ==
    (files.input[1] <= 0 \/ files.input[2] < 0
        \/ files.input[2] >= files.input[1])
        => /\ op \notin {"performLDLtDecomposition", "solveLinearSystem"}
           /\ pc \notin {"decomposed", "solved", "restored"}

C8_RoundTrip ==
    (op = "multiplyBandMatrix" /\ ~divz /\ ~ZeroPivot)
        => \A i, j \in 0 .. n - 1 :
               Eq(out[i][j], RestoredEntry(files.AL, files.D, <<>>, m, i, j))

BandEntry(AL, D, i, j) ==
    IF i = j THEN D[i]
    ELSE IF j < i /\ i - j <= m THEN AL[i][m - i + j]
    ELSE IF i < j /\ j - i <= m THEN AL[j][m - j + i]
    ELSE Zero(1)

\* The sum over j = 0 .. last of entry (i, j) times x[j].
RECURSIVE RowProduct(_, _, _, _, _)
RowProduct(AL, D, x, i, last) ==
    IF last < 0 THEN Zero(1)
    ELSE Add(RowProduct(AL, D, x, i, last - 1),
             Mul(BandEntry(AL, D, i, last), x[last]))

\* C10: on every call the product operation yields, for each i, row i of
\* the symmetric banded matrix times x, whatever was called before.
C10_MultiplyIsProduct ==
    (op \in {"printMultiplyMatrixToVector", "printMultiplyByVector"}
        /\ ~divz)
        => \A i \in 0 .. n - 1 :
               IF cls = "SLAUSolverLDLT"
               THEN Eq(out[i + 1],
                       RowProduct(matrixAL, diagD, vectorF, i, n - 1))
               ELSE Eq(out[i], RowProduct(matrixAL, diagD, X, i, n - 1))


\* C11: printRestoredMatrix yields, for all 0 <= i, j < n: diagD[i] if
\* i = j; matrixAL[i][m-i+j] if j < i and i - j <= m; matrixAL[j][m-j+i] if
\* i < j and j - i <= m; 0 otherwise; so what it prints is symmetric and
\* zero outside the band.
C11_RestoredMatrixEntries ==
    (op = "printRestoredMatrix")
        => \A i, j \in 0 .. n - 1 :
               /\ out[i][j] =
                      IF i = j THEN diagD[i]
                      ELSE IF j < i /\ i - j <= m THEN matrixAL[i][m - i + j]
                      ELSE IF i < j /\ j - i <= m THEN matrixAL[j][m - j + i]
                      ELSE Zero(1)
               /\ out[i][j] = out[j][i]
               /\ (Abs(i - j) > m => out[i][j] = Zero(1))

C11_RestoredBandPrinted ==
    /\ op = "printRestoredMatrix"
    /\ pc = "decomposed"
    /\ n = 3
    /\ m = 1
    /\ ~IsZero(out[2][1])
    /\ out[1][2] = matrixAL[2][0]
    /\ out[2][0] = Zero(1)

\* C12: printRestoredMatrix leaves matrixAL, diagD and all vectors
\* unchanged, and a call that directly follows another call prints the
\* same entries.
C12_RestoredMatrixPureRead ==
    [][(op' = "printRestoredMatrix")
           => (/\ matrixAL' = matrixAL
               /\ diagD' = diagD
               /\ vectorF' = vectorF
               /\ <<y, z, X, result>>' = <<y, z, X, result>>
               /\ (op = "printRestoredMatrix" => out' = out))]_vars

C12_RestoredMatrixPrinted ==
    /\ op = "printRestoredMatrix"
    /\ pc = "decomposed"
    /\ n >= 2
    /\ m >= 1
    /\ matrixAL # files.AL

\* C13: in every state after construction matrixAL has exactly n rows of
\* exactly m slots and diagD has length n, also after a further call of
\* initialize with other dimensions.
C13_ShapeFixed ==
    (pc \notin {"start", "exit1"})
        => /\ DOMAIN matrixAL = 0 .. n - 1
           /\ \A i \in 0 .. n - 1 : DOMAIN matrixAL[i] = 0 .. m - 1
           /\ DOMAIN diagD = 0 .. n - 1

\* The solution vector of the object: vectorF in SLAUSolverLDLT, X in LDLT.
Solution == IF cls = "SLAUSolverLDLT" THEN vectorF ELSE X

\* C14: a call of solveLinearSystem directly after another one on the same
\* decomposed store leaves the same solution vector as the first call.
C14_ResolveRepeatable ==
    [][(op = "solveLinearSystem" /\ op' = "solveLinearSystem"
           /\ pc = "solved" /\ pc' = "solved" /\ ~divz')
           => (Solution' = Solution)]_vars

RECURSIVE PivotSum(_, _, _)
PivotSum(i, j, sum) ==
    IF j < i
    THEN PivotSum(i, j + 1,
                  Add(sum, Mul(Mul(matrixAL[i][m - i + j],
                                   matrixAL[i][m - i + j]), diagD[j])))
    ELSE sum

LowerEntry(r, t) ==
    IF r - t <= m THEN matrixAL[r][m - r + t] ELSE Zero(1)

\* The sum over t = from .. i-1 of L(j,t) * L(i,t) * D(t,t), added to sum.
RECURSIVE LowerSum(_, _, _, _)
LowerSum(j, i, t, sum) ==
    IF t < i
    THEN LowerSum(j, i, t + 1,
                  Add(sum, Mul(Mul(LowerEntry(j, t), LowerEntry(i, t)),
                               diagD[t])))
    ELSE sum

\* C16: for every outer row i and every j with i < j <= min(n-1, i+m),
\* performLDLtDecomposition leaves L(j,i) = (A(j,i) - sum over
\* t = max(0, i-m) .. i-1 of L(j,t) * L(i,t) * D(t,t)) / D(i,i), an
\* out-of-band L(.,t) counting as 0, for every n and m.
C16_LowerRecurrence ==
    (op = "performLDLtDecomposition" /\ pc = "decomposed" /\ ~divz)
        => \A i \in 0 .. n - 1 :
               \A j \in {r \in i + 1 .. n - 1 : r <= i + m} :
                   matrixAL[j][m - j + i]
                       = Div(Sub(files.AL[j][m - j + i],
                                 LowerSum(j, i, Max(0, i - m), Zero(1))),
                             diagD[i])

\* C17: diagonal substitution is order-independent.  While the iterations
\* of the parallel loop run in any order and interleaving, every finished
\* iteration i has left z[i] = y[i] / diagD[i], whatever the other
\* iterations have or have not done; so the loop ends with the same z on
\* every schedule.
C17_DiagonalOrderIndependent ==
    (cls = "LDLT_omp" /\ pc = "diagonal")
        => \A i \in 0 .. n - 1 :
               iter[i] = 0 => z[i] = Div(y[i], diagD[i])

C17_DiagonalOutOfOrder ==
    /\ cls = "LDLT_omp"
    /\ pc = "diagonal"
    /\ n = 3
    /\ iter[2] = 0
    /\ iter[1] = 0
    /\ iter[0] = -1
    /\ ~divz
    /\ ~IsZero(z[2])
    /\ ~IsZero(y[0])

\* C18: outside the decomposition, for n >= 1 and 0 <= m < n, the forward
\* and backward substitution, the matrix-vector product and the dense
\* L * D * L^T recomputation access each band row only at slots in [0, m):
\* every access matrixAL[r][s] has 0 <= r < n and 0 <= s < m.
C18_LaterAccessInBand ==
    (/\ op \in {"solveLinearSystem", "printMultiplyMatrixToVector",
                "printMultiplyByVector", "multiplyBandMatrix"}
     /\ n >= 1 /\ 0 <= m /\ m < n)
        => \A c \in acc : c[1] \in 0 .. n - 1 /\ c[2] \in 0 .. m - 1

\* C19: after HilbertBandMatrix, whatever the store held before, for all i
\* in 0 .. n-1, diagD[i] = 1/(2i+1) and vectorF[i] = i+1, and for all
\* in-band j with max(0, i-m) <= j < i, matrixAL[i][m-i+j] = 1/(i+j+1).
C19_HilbertEveryRow ==
    (op = "HilbertBandMatrix" /\ pc = "hilbert")
        => \A i \in 0 .. n - 1 :
               /\ diagD[i] = Frac(1, 2 * i + 1)
               /\ vectorF[i] = Num(i + 1)
               /\ \A j \in Max(0, i - m) .. i - 1 :
                      matrixAL[i][m - i + j] = Frac(1, i + j + 1)

\* C20: the sequence HilbertBandMatrix; performLDLtDecomposition;
\* returnMatixAfterHilbert leaves matrixAL and diagD exactly as they were
\* right after HilbertBandMatrix, that is, as HilbertBandMatrix leaves the
\* store the constructor read from the files.
C20_HilbertRestored ==
    (op = "returnMatixAfterHilbert" /\ pc = "hilbert_restored")
        => LET h == HilbertBandMatrix(
                        [AL |-> files.AL, D |-> files.D, F |-> files.F], n, m)
           IN  /\ matrixAL = h.AL
               /\ diagD = h.D

C20_HilbertRestoredAfterDecomposition ==
    /\ op = "returnMatixAfterHilbert"
    /\ pc = "hilbert_restored"
    /\ n = 3
    /\ m = 2
    /\ ~divz
    /\ diagD[1] = Frac(1, 3)
    /\ matrixAL[2][0] = Frac(1, 3)
    /\ matrixAL[2][1] = Frac(1, 4)

\* C21: the in-place solver refines the buffered one.  Whenever
\* SLAUSolverLDLT::solveLinearSystem runs on a store and a right-hand side
\* f (the vectorF it starts from), it ends with vectorF equal, entry for
\* entry, to the X that LDLT::solveLinearSystem computes from the same
\* store and f in its separate buffers y, z, X.
C21_InPlaceRefinesBuffered ==
    [][(cls = "SLAUSolverLDLT" /\ op' = "solveLinearSystem")
           => (vectorF' = LDLT_solve(matrixAL, diagD, vectorF,
                                     ZeroVector(n), ZeroVector(n),
                                     ZeroVector(n), <<>>, n, m).X)]_vars

C21_InPlaceSolved ==
    /\ cls = "SLAUSolverLDLT"
    /\ op = "solveLinearSystem"
    /\ pc = "solved"
    /\ n = 3
    /\ m = 2
    /\ ~divz
    /\ \A i \in 1 .. 2 : ~IsZero(matrixAL[i][1])
    /\ ~IsZero(matrixAL[2][0])
    /\ \A i \in 0 .. 2 : vectorF[i] # files.F[i]

\* C22: in SLAUSolverLDLT::performLDLtDecomposition, at every iteration k
\* of the innermost loop (max(0, i-m) <= k < i) the indices used are
\* indexIK = m - i + k and indexJK = m - j + k, the storage slots of L(i,k)
\* and L(j,k).
C22_InnermostIndices ==
    (cls = "SLAUSolverLDLT" /\ op = "performLDLtDecomposition")
        => \A u \in idx :
               /\ u[4] = m - u[1] + u[3]
               /\ u[5] = m - u[2] + u[3]

\* C23: if any of the four input files (dimensions, band, diagonal,
\* right-hand side) cannot be opened, construction throws, main exits with
\* status 1, and neither decomposition, solving nor the write of the
\* solution file takes place.
C23_UnopenableInputStops ==
    (failed # "none")
        => /\ pc = "exit1"
           /\ err # ""
           /\ op = "constructor"
           /\ solves = 0
           /\ solveFile = <<>>
           /\ matrixAL = <<>>
           /\ diagD = <<>>

C23_RhsFileUnopenable ==
    /\ cls = "SLAUSolverLDLT"
    /\ failed = "F"
    /\ pc = "exit1"
    /\ err = "Could not open file"
    /\ files.input = <<3, 1>>
=============================================================================
